---------------------------- MODULE Spec2Model ----------------------------
(***************************************************************************)
(* Restaurant-Monitoring: the uptime/downtime estimation (services.py) and *)
(* the report job engine (main.py, services.py) over the tables of         *)
(* database.py, loaded by data_loader.py.                                  *)
(*                                                                         *)
(* Time is counted in whole seconds from an epoch that is a Monday         *)
(* 00:00:00 UTC.  A zone of the zone database is its UTC offset (a fixed   *)
(* offset per zone; the zone database itself is an external library).      *)
(* A float metric is the exact fraction num/den.                           *)
(* A Python call either returns or raises: an outcome is a record whose    *)
(* field exc names the exception ("none" when the call returned).          *)
(***************************************************************************)
EXTENDS Integers, Sequences, FiniteSets, TLC

VARIABLES
    store_status,     \* table store_status: set of rows
    business_hours,   \* table business_hours: set of rows
    timezone,         \* table timezone: set of rows
    report_status,    \* table report_status: report_id -> row, NoRow if none
    files,            \* reports/<report_id>.csv: path -> file, NoFile if none
    loader_pc,        \* position of data_loader_script.main
    task,             \* the background task of each report: its position and locals
    response,         \* the last answer of get_report
    probe             \* the last direct application of a function

vars == <<store_status, business_hours, timezone, report_status, files,
          loader_pc, task, response, probe>>

---------------------------------------------------------------------------
(* Units and bounds *)

HOUR == 3600
DAY == 86400
WEEK == 7 * DAY

HourSpanMinutes == 60
HoursPerDay == 24
DaysPerWeek == 7

MaxJobs == 2

\* Monday 00:00:00 UTC of the third week after the epoch
T0 == 2 * WEEK
\* Wednesday 18:00:00 UTC = Wednesday 12:00:00 in America/Chicago
TNow == T0 + 2 * DAY + 18 * HOUR

---------------------------------------------------------------------------
(* Civil time *)

\* pytz.timezone(tz_str): the zones used here, as offsets from UTC
utcoffset(tz_str) ==
    CASE tz_str = "America/Chicago" -> (0 - 6) * HOUR
      [] tz_str = "Asia/Kolkata"    -> 5 * HOUR + 30 * 60
      [] tz_str = "UTC"             -> 0

\* timestamp_utc.replace(tzinfo=pytz.utc).astimezone(local_tz): the wall clock
\* of the zone, as seconds from the epoch
astimezone(timestamp_utc, tz_str) == timestamp_utc + utcoffset(tz_str)

\* local_time.weekday(): 0 = Monday .. 6 = Sunday
weekday(local_time) == (local_time \div DAY) % 7

\* the time of day of a wall clock, in seconds from midnight
time_of_day(local_time) == local_time % DAY

\* time(h, m, s)
time(h, m, s) == h * HOUR + m * 60 + s

---------------------------------------------------------------------------
(* Outcomes of a call, and metric values *)

Ok(v) == [exc |-> "none", value |-> v]
Raise(e) == [exc |-> e]

\* the fraction n/d
Frac(n, d) == [num |-> n, den |-> d]
Zero == Frac(0, 1)
FracEq(a, b) == a.num * b.den = b.num * a.den
FracAdd(a, b) == Frac(a.num * b.den + b.num * a.den, a.den * b.den)

---------------------------------------------------------------------------
(* Resolvers *)

\* the largest of a non-empty set of integers
Max(S) == CHOOSE x \in S : \A y \in S : y <= x

\* get_max_timestamp(db), given the value datetime.utcnow() would return
get_max_timestamp(status_tbl, utcnow) ==
    IF status_tbl = {} THEN utcnow
    ELSE Max({r.timestamp_utc : r \in status_tbl})

\* get_store_timezone(store_id, db)
get_store_timezone(store_id, tz_tbl) ==
    IF \E r \in tz_tbl : r.store_id = store_id
    THEN (CHOOSE r \in tz_tbl : r.store_id = store_id).timezone_str
    ELSE "America/Chicago"

\* get_business_hours(store_id, db)
get_business_hours(store_id, hours_tbl) ==
    LET hours == {r \in hours_tbl : r.store_id = store_id}
    IN IF hours # {}
       THEN {[day_of_week |-> hour.day_of_week,
              start_time_local |-> hour.start_time_local,
              end_time_local |-> hour.end_time_local] : hour \in hours}
       ELSE {[day_of_week |-> day,
              start_time_local |-> time(0, 0, 0),
              end_time_local |-> time(23, 59, 59)] : day \in 0 .. DaysPerWeek - 1}

---------------------------------------------------------------------------
(* Business-hours membership *)

\* start_dt <= local_time <= end_dt, where start_dt and end_dt come from
\* datetime.combine(date, time) and carry no zone while local_time carries
\* one: Python refuses to order a naive and an aware datetime.
compare_naive_aware(start_dt, local_time, end_dt) == "TypeError"

\* the body of the loop of is_store_open for one rule whose day matches
rule_test(hours, local_time) ==
    LET date == local_time - time_of_day(local_time)
        start_dt == date + hours.start_time_local
        end_dt == date + hours.end_time_local
    IN compare_naive_aware(start_dt, local_time, end_dt)

\* is_store_open(timestamp_utc, store_id, business_hours, tz_str):
\* "True", "False", or "TypeError" when it raises
is_store_open(timestamp_utc, bh, tz_str) ==
    LET local_time == astimezone(timestamp_utc, tz_str)
        day_of_week == weekday(local_time)
        matching == {hours \in bh : hours.day_of_week = day_of_week}
    IN IF \E hours \in matching : rule_test(hours, local_time) = "TypeError"
       THEN "TypeError"
       ELSE IF \E hours \in matching : rule_test(hours, local_time) = "True"
            THEN "True"
            ELSE "False"

---------------------------------------------------------------------------
(* Window aggregation *)

\* a result row of calculate_uptime_downtime
Row(store_id, uh, ud, uw, dh, dd, dw) ==
    [store_id |-> store_id,
     uptime_last_hour |-> uh, uptime_last_day |-> ud, uptime_last_week |-> uw,
     downtime_last_hour |-> dh, downtime_last_day |-> dd,
     downtime_last_week |-> dw]

\* the row of zeros returned when there is nothing to count
ZeroRow(store_id) == Row(store_id, Zero, Zero, Zero, Zero, Zero, Zero)

\* the query without its lower bound
status_query_no_lower_bound(store_id, current_time, status_tbl) ==
    {r \in status_tbl : /\ r.store_id = store_id
                        /\ r.timestamp_utc <= current_time}

\* the query of calculate_uptime_downtime: the rows of one store within
\* [week_ago, current_time]
status_query(store_id, current_time, status_tbl) ==
    {r \in status_tbl : /\ r.store_id = store_id
                        /\ r.timestamp_utc >= current_time - WEEK
                        /\ r.timestamp_utc <= current_time}

\* the loop "for i in range(n): if is_store_open(current_time - i hours)":
\* the number of hourly instants that are open, unless a test raises
total_business_hours(current_time, n, bh, tz_str) ==
    LET test(i) == is_store_open(current_time - i * HOUR, bh, tz_str)
    IN IF \E i \in 0 .. n - 1 : test(i) = "TypeError"
       THEN Raise("TypeError")
       ELSE Ok(Cardinality({i \in 0 .. n - 1 : test(i) = "True"}))

\* active_ratio * total and total - active_ratio * total over a frame
uptime_of(df, total) ==
    Frac(Cardinality({r \in df : r.status = "active"}) * total, Cardinality(df))
downtime_of(df, total) ==
    Frac(total * Cardinality(df)
           - Cardinality({r \in df : r.status = "active"}) * total,
         Cardinality(df))

\* calculate_uptime_downtime(store_id, current_time, db)
calculate_uptime_downtime(store_id, current_time, status_tbl, hours_tbl, tz_tbl) ==
    LET tz_str == get_store_timezone(store_id, tz_tbl)
        bh == get_business_hours(store_id, hours_tbl)
        hour_ago == current_time - HOUR
        day_ago == current_time - DAY
        status_records == status_query(store_id, current_time, status_tbl)
        is_business_hours(r) == is_store_open(r.timestamp_utc, bh, tz_str)
        business_hours_df == {r \in status_records : is_business_hours(r) = "True"}
        hour_df == {r \in business_hours_df : r.timestamp_utc >= hour_ago}
        day_df == {r \in business_hours_df : r.timestamp_utc >= day_ago}
        week_df == business_hours_df
        day_total == total_business_hours(current_time, HoursPerDay, bh, tz_str)
        week_total == total_business_hours(current_time, DaysPerWeek * HoursPerDay,
                                           bh, tz_str)
    IN IF status_records = {} THEN Ok(ZeroRow(store_id))
       ELSE IF \E r \in status_records : is_business_hours(r) = "TypeError"
       THEN Raise("TypeError")
       ELSE IF business_hours_df = {} THEN Ok(ZeroRow(store_id))
       ELSE IF day_df # {} /\ day_total.exc # "none" THEN Raise(day_total.exc)
       ELSE IF week_total.exc # "none" THEN Raise(week_total.exc)
       ELSE Ok(Row(store_id,
                   IF hour_df # {} THEN uptime_of(hour_df, HourSpanMinutes) ELSE Zero,
                   IF day_df # {} THEN uptime_of(day_df, day_total.value) ELSE Zero,
                   uptime_of(week_df, week_total.value),
                   IF hour_df # {} THEN downtime_of(hour_df, HourSpanMinutes) ELSE Zero,
                   IF day_df # {} THEN downtime_of(day_df, day_total.value) ELSE Zero,
                   downtime_of(week_df, week_total.value)))

---------------------------------------------------------------------------
(* The data the loader and the clock can supply *)

ReportIds == 1 .. MaxJobs

StatusRow(id, store_id, timestamp_utc, status) ==
    [id |-> id, store_id |-> store_id, timestamp_utc |-> timestamp_utc,
     status |-> status]
HoursRow(store_id, day_of_week, start_time_local, end_time_local) ==
    [store_id |-> store_id, day_of_week |-> day_of_week,
     start_time_local |-> start_time_local, end_time_local |-> end_time_local]
TzRow(store_id, timezone_str) ==
    [store_id |-> store_id, timezone_str |-> timezone_str]

\* S1 is observed at TNow and half an hour before; S2 only eight days before
Obs1 == StatusRow(1, "S1", TNow, "active")
Obs2 == StatusRow(2, "S1", TNow - 30 * 60, "inactive")
Obs3 == StatusRow(3, "S2", TNow - 8 * DAY, "active")

\* the contents store_status.csv, menu_hours.csv and timezones.csv may have
StatusCsvs == {{Obs1, Obs3}, {Obs1, Obs2, Obs3}}
HoursCsvs == {{HoursRow("S1", 0, time(9, 0, 0), time(17, 0, 0))},
              {HoursRow("S1", 2, time(9, 0, 0), time(17, 0, 0))}}
TzCsvs == {{TzRow("S1", "Asia/Kolkata")}}

\* what datetime.utcnow() may return while the program runs
UtcNowValues == {TNow + DAY, TNow + DAY + HOUR}

---------------------------------------------------------------------------
(* Rows, files and task records *)

NoRow == [exists |-> FALSE, status |-> "none", completed_at |-> <<>>]
NoFile == [exists |-> FALSE, header |-> FALSE, rows |-> <<>>]

\* ReportStatus(report_id=report_id, status="Running")
new_report_status_pending(report_id) ==
    [exists |-> TRUE, status |-> "Pending", completed_at |-> <<>>]
new_report_status(report_id) ==
    [exists |-> TRUE, status |-> "Running", completed_at |-> <<>>]

\* f"reports/{report_id}.csv", the path being named by what distinguishes it
output_file_shared(report_id) == 1
output_file(report_id) == report_id

NoDb == [store_status |-> {}, business_hours |-> {}, timezone |-> {}]
Db == [store_status |-> store_status, business_hours |-> business_hours,
       timezone |-> timezone]

IdleTask == [pc |-> "idle", current_time |-> 0, store_ids |-> <<>>,
             results |-> <<>>, written |-> 0, exc |-> "none",
             used_now |-> {}, db_at_start |-> NoDb]

\* the members of a set of stores in the order the index on store_id lists them
RECURSIVE Listed(_)
Listed(S) ==
    IF S = {} THEN <<>>
    ELSE LET first == CHOOSE x \in S : \A y \in S : x = y \/ (x = "S1" /\ y = "S2")
         IN <<first>> \o Listed(S \ {first})

\* the tables as load_all_data leaves them when it has run through
LoadedDbs ==
    {[store_status |-> s, business_hours |-> h, timezone |-> z] :
        s \in StatusCsvs, h \in HoursCsvs, z \in TzCsvs}

\* the server alone: the tables are empty (init_db), or the loader script has
\* run through before the server started
Init ==
    /\ \E db \in {NoDb} \cup LoadedDbs :
         /\ store_status = db.store_status
         /\ business_hours = db.business_hours
         /\ timezone = db.timezone
    /\ report_status = [id \in ReportIds |-> NoRow]
    /\ files = [id \in ReportIds |-> NoFile]
    /\ loader_pc = "done"
    /\ task = [id \in ReportIds |-> IdleTask]
    /\ response = [report_id |-> 0, seen |-> "none", code |-> 0,
                   body |-> "none", content |-> NoFile]
    /\ probe = [op |-> "none"]

\* the server and the loader script started together on empty tables
InitLoad ==
    /\ store_status = {}
    /\ business_hours = {}
    /\ timezone = {}
    /\ report_status = [id \in ReportIds |-> NoRow]
    /\ files = [id \in ReportIds |-> NoFile]
    /\ loader_pc = "store_status"
    /\ task = [id \in ReportIds |-> IdleTask]
    /\ response = [report_id |-> 0, seen |-> "none", code |-> 0,
                   body |-> "none", content |-> NoFile]
    /\ probe = [op |-> "none"]

---------------------------------------------------------------------------
(* data_loader.load_all_data, one table at a time *)

load_store_status ==
    /\ loader_pc = "store_status"
    /\ \E csv \in StatusCsvs :
         store_status' = IF Cardinality(store_status) > 0 THEN store_status ELSE csv
    /\ loader_pc' = "business_hours"
    /\ UNCHANGED <<business_hours, timezone, report_status, files, task,
                   response, probe>>

load_business_hours ==
    /\ loader_pc = "business_hours"
    /\ \E csv \in HoursCsvs :
         business_hours' = IF Cardinality(business_hours) > 0 THEN business_hours
                           ELSE csv
    /\ loader_pc' = "timezone"
    /\ UNCHANGED <<store_status, timezone, report_status, files, task,
                   response, probe>>

load_timezone ==
    /\ loader_pc = "timezone"
    /\ \E csv \in TzCsvs :
         timezone' = IF Cardinality(timezone) > 0 THEN timezone ELSE csv
    /\ loader_pc' = "done"
    /\ UNCHANGED <<store_status, business_hours, report_status, files, task,
                   response, probe>>

---------------------------------------------------------------------------
(* main.trigger_report and the background task services.trigger_report_generation *)

\* report_id = str(uuid.uuid4()); the row is committed and the task is queued
trigger_report(id) ==
    /\ ~report_status[id].exists
    /\ \A other \in ReportIds : other < id => report_status[other].exists
    /\ task[id].pc = "idle"
    /\ report_status' = [report_status EXCEPT ![id] = new_report_status(id)]
    /\ task' = [task EXCEPT ![id].pc = "start"]
    /\ UNCHANGED <<store_status, business_hours, timezone, files, loader_pc,
                   response, probe>>

\* current_time = get_max_timestamp(db)
read_current_time(id) ==
    /\ task[id].pc = "start"
    /\ \E utcnow \in UtcNowValues :
         task' = [task EXCEPT ![id].current_time =
                                  get_max_timestamp(store_status, utcnow),
                              ![id].db_at_start = Db,
                              ![id].pc = "stores"]
    /\ UNCHANGED <<store_status, business_hours, timezone, report_status, files,
                   loader_pc, response, probe>>

\* store_ids = [row[0] for row in db.query(StoreStatus.store_id).distinct().all()]
list_store_ids(id) ==
    /\ task[id].pc = "stores"
    /\ LET order == Listed({r.store_id : r \in store_status})
       IN task' = [task EXCEPT ![id].store_ids = order,
                               ![id].pc = IF Len(order) = 0 THEN "open" ELSE "calc"]
    /\ UNCHANGED <<store_status, business_hours, timezone, report_status, files,
                   loader_pc, response, probe>>

\* the current_time argument of calculate_uptime_downtime in the loop
job_now_reread(current_time, status_tbl) ==
    get_max_timestamp(status_tbl, current_time)
job_now(current_time, status_tbl) == current_time

\* one turn of "for store_id in store_ids": a result appended, or the
\* exception of calculate_uptime_downtime caught by the handler
calculate_next_store(id) ==
    /\ task[id].pc = "calc"
    /\ LET t == task[id]
           k == Len(t.results) + 1
           now == job_now(t.current_time, store_status)
           out == calculate_uptime_downtime(t.store_ids[k], now, store_status,
                                            business_hours, timezone)
       IN task' = [task EXCEPT ![id] =
            IF out.exc # "none"
            THEN [t EXCEPT !.exc = out.exc, !.pc = "except",
                           !.used_now = @ \cup {now}]
            ELSE [t EXCEPT !.results = Append(@, out.value),
                           !.used_now = @ \cup {now},
                           !.pc = IF k = Len(t.store_ids) THEN "open" ELSE "calc"]]
    /\ UNCHANGED <<store_status, business_hours, timezone, report_status, files,
                   loader_pc, response, probe>>

\* the rows "for result in results: writer.writerow(result)" writes
rows_to_write_but_last(results) == SubSeq(results, 1, Len(results) - 1)
rows_to_write(results) == results

\* open(output_file, 'w') and writer.writeheader()
open_output_file(id) ==
    /\ task[id].pc = "open"
    /\ files' = [files EXCEPT ![output_file(id)] =
                    [exists |-> TRUE, header |-> TRUE, rows |-> <<>>]]
    /\ task' = [task EXCEPT ![id].pc =
                    IF Len(rows_to_write(task[id].results)) = 0
                    THEN "commit" ELSE "rows"]
    /\ UNCHANGED <<store_status, business_hours, timezone, report_status,
                   loader_pc, response, probe>>

\* writer.writerow(result)
write_row(id) ==
    /\ task[id].pc = "rows"
    /\ LET t == task[id]
           rows == rows_to_write(t.results)
           k == t.written + 1
       IN /\ files' = [files EXCEPT ![output_file(id)].rows = Append(@, rows[k])]
          /\ task' = [task EXCEPT ![id].written = k,
                                  ![id].pc = IF k = Len(rows) THEN "commit"
                                             ELSE "rows"]
    /\ UNCHANGED <<store_status, business_hours, timezone, report_status,
                   loader_pc, response, probe>>

\* open or write fails (the directory is gone, the disk is full): OSError
io_error(id) ==
    /\ task[id].pc \in {"open", "rows"}
    /\ task' = [task EXCEPT ![id].exc = "OSError", ![id].pc = "except"]
    /\ UNCHANGED <<store_status, business_hours, timezone, report_status, files,
                   loader_pc, response, probe>>

\* report.status = "Complete"; report.completed_at = datetime.utcnow()
mark_complete(row, utcnow) ==
    [row EXCEPT !.status = "Complete", !.completed_at = <<utcnow>>]

\* the end of the try block: the status row is updated and committed
commit_complete(id) ==
    /\ task[id].pc = "commit"
    /\ \E utcnow \in UtcNowValues :
         report_status' = [report_status EXCEPT ![id] =
             IF @.exists THEN mark_complete(@, utcnow) ELSE @]
    /\ task' = [task EXCEPT ![id].pc = "done"]
    /\ UNCHANGED <<store_status, business_hours, timezone, files, loader_pc,
                   response, probe>>

\* report.status = "Error"
on_exception_keep(row) == row
on_exception(row) == [row EXCEPT !.status = "Error"]

\* the except block: the status row is updated and committed
handle_exception(id) ==
    /\ task[id].pc = "except"
    /\ report_status' = [report_status EXCEPT ![id] =
           IF @.exists THEN on_exception(@) ELSE @]
    /\ task' = [task EXCEPT ![id].pc = "done"]
    /\ UNCHANGED <<store_status, business_hours, timezone, files, loader_pc,
                   response, probe>>

---------------------------------------------------------------------------
(* main.get_report *)

Answer(report_id, seen, code, body, content) ==
    [report_id |-> report_id, seen |-> seen, code |-> code, body |-> body,
     content |-> content]

\* the answer were the file served whenever it exists
get_report_answer_any_file(report_id, row, file) ==
    IF ~row.exists THEN Answer(report_id, "none", 404, "Report not found", NoFile)
    ELSE IF file.exists THEN Answer(report_id, row.status, 200, "file", file)
    ELSE Answer(report_id, row.status, 200, "Running", NoFile)

\* get_report(report_id, db), given the status row (or none) and the file
get_report_answer(report_id, row, file) ==
    IF ~row.exists
    THEN Answer(report_id, "none", 404, "Report not found", NoFile)
    ELSE IF row.status = "Running"
    THEN Answer(report_id, row.status, 200, "Running", NoFile)
    ELSE IF row.status = "Complete"
    THEN IF file.exists
         THEN Answer(report_id, row.status, 200, "file", file)
         ELSE Answer(report_id, row.status, 404, "Report file not found", NoFile)
    ELSE Answer(report_id, row.status, 500, "Unknown report status", NoFile)

get_report(id) ==
    /\ response' = get_report_answer(id, report_status[id], files[output_file(id)])
    /\ UNCHANGED <<store_status, business_hours, timezone, report_status, files,
                   loader_pc, task, probe>>

---------------------------------------------------------------------------
(* The job engine with the loader beside it *)

TaskStep(id) ==
    \/ read_current_time(id)
    \/ list_store_ids(id)
    \/ calculate_next_store(id)
    \/ open_output_file(id)
    \/ write_row(id)
    \/ io_error(id)
    \/ commit_complete(id)
    \/ handle_exception(id)

Next ==
    \/ \E id \in ReportIds : trigger_report(id)
    \/ \E id \in ReportIds : TaskStep(id)
    \/ \E id \in ReportIds : get_report(id)

Spec == Init /\ [][Next]_vars

\* the jobs without the queries, which change nothing a job reads; a
\* background task, once queued, is run to its end
NextJobs ==
    \/ \E id \in ReportIds : trigger_report(id)
    \/ \E id \in ReportIds : TaskStep(id)

FairSpec ==
    Init /\ [][NextJobs]_vars /\ \A id \in ReportIds : WF_vars(TaskStep(id))

\* the loader script beside one report job
NextLoad ==
    \/ load_store_status
    \/ load_business_hours
    \/ load_timezone
    \/ trigger_report(1)
    \/ TaskStep(1)

LoadSpec == InitLoad /\ [][NextLoad]_vars

---------------------------------------------------------------------------
(* The functions applied directly to bounded inputs *)

\* Wednesday in America/Chicago: 09:00:00, 12:00:00, 17:00:00, 17:00:01,
\* 21:00:00 (Thursday 03:00:00 UTC), 23:59:59; and Monday 00:00:00 UTC
ProbeInstants ==
    {T0 + 2 * DAY + 15 * HOUR, TNow, T0 + 2 * DAY + 23 * HOUR,
     T0 + 2 * DAY + 23 * HOUR + 1, T0 + 3 * DAY + 3 * HOUR,
     T0 + 3 * DAY + 6 * HOUR - 1, T0}

ProbeZones == {"America/Chicago", "Asia/Kolkata", "UTC"}

\* tables of business hours for S1; the empty table gives the default
ProbeHoursTables ==
    {{},
     {HoursRow("S1", 2, time(9, 0, 0), time(17, 0, 0))},
     {HoursRow("S1", 0, time(9, 0, 0), time(17, 0, 0))},
     {HoursRow("S1", 2, time(9, 0, 0), time(11, 0, 0)),
      HoursRow("S1", 2, time(12, 0, 0), time(17, 0, 0)),
      HoursRow("S1", 3, time(0, 0, 0), time(23, 59, 59))}}

ProbeTzTables == {{}, {TzRow("S1", "Asia/Kolkata")}, {TzRow("S1", "UTC")}}

\* observations of S1 from which a store_status table is drawn
ProbeObservations ==
    {StatusRow(1, "S1", TNow, "active"),
     StatusRow(2, "S1", TNow - 30 * 60, "inactive"),
     StatusRow(3, "S1", TNow - 5 * HOUR, "active"),
     StatusRow(4, "S1", TNow - 3 * DAY, "inactive"),
     StatusRow(5, "S1", TNow - 8 * DAY, "active")}

ProbeNows == {TNow, TNow + 9 * HOUR}

probe_is_store_open ==
    /\ probe.op = "none"
    /\ \E timestamp_utc \in ProbeInstants, h \in ProbeHoursTables,
          tz_str \in ProbeZones :
         LET bh == get_business_hours("S1", h)
         IN probe' = [op |-> "is_store_open", timestamp_utc |-> timestamp_utc,
                      bh |-> bh, tz_str |-> tz_str,
                      out |-> is_store_open(timestamp_utc, bh, tz_str)]
    /\ UNCHANGED <<store_status, business_hours, timezone, report_status, files,
                   loader_pc, task, response>>

probe_total_business_hours ==
    /\ probe.op = "none"
    /\ \E now \in ProbeNows, n \in {HoursPerDay, DaysPerWeek * HoursPerDay},
          h \in ProbeHoursTables, tz_str \in ProbeZones :
         LET bh == get_business_hours("S1", h)
         IN probe' = [op |-> "total_business_hours", current_time |-> now,
                      n |-> n, bh |-> bh, tz_str |-> tz_str,
                      out |-> total_business_hours(now, n, bh, tz_str)]
    /\ UNCHANGED <<store_status, business_hours, timezone, report_status, files,
                   loader_pc, task, response>>

probe_calculate ==
    /\ probe.op = "none"
    /\ \E now \in ProbeNows, s \in SUBSET ProbeObservations,
          h \in ProbeHoursTables, z \in ProbeTzTables :
         probe' = [op |-> "calculate_uptime_downtime", store_id |-> "S1",
                   current_time |-> now, status_tbl |-> s, hours_tbl |-> h,
                   tz_tbl |-> z,
                   out |-> calculate_uptime_downtime("S1", now, s, h, z)]
    /\ UNCHANGED <<store_status, business_hours, timezone, report_status, files,
                   loader_pc, task, response>>

NextPure ==
    \/ probe_is_store_open
    \/ probe_total_business_hours
    \/ probe_calculate

PureSpec == InitLoad /\ [][NextPure]_vars

---------------------------------------------------------------------------
(* Business-hours membership and the window metrics: claims C5 to C8 *)

\* membership as the specification states it: some rule of the schedule is
\* for the local weekday and holds the local time of day, bounds included
Membership(timestamp_utc, bh, tz_str) ==
    LET local_time == astimezone(timestamp_utc, tz_str)
    IN \E rule \in bh :
         /\ rule.day_of_week = weekday(local_time)
         /\ rule.start_time_local <= time_of_day(local_time)
         /\ time_of_day(local_time) <= rule.end_time_local

\* C5: is_store_open returns true exactly when some rule of the schedule is
\* for the instant's local weekday and start <= local time of day <= end,
\* false otherwise, and never fails.
C5_Claim ==
    probe.op = "is_store_open" =>
        probe.out = IF Membership(probe.timestamp_utc, probe.bh, probe.tz_str)
                    THEN "True" ELSE "False"

\* the in-hours observation set of a range of `span` seconds before now
InHours(p, span) ==
    LET bh == get_business_hours(p.store_id, p.hours_tbl)
        tz_str == get_store_timezone(p.store_id, p.tz_tbl)
    IN {r \in p.status_tbl :
          /\ r.store_id = p.store_id
          /\ r.timestamp_utc >= p.current_time - WEEK
          /\ r.timestamp_utc >= p.current_time - span
          /\ r.timestamp_utc <= p.current_time
          /\ Membership(r.timestamp_utc, bh, tz_str)}

\* the number of instants now - i hours, i < n, that pass the membership test
BusinessDuration(p, n) ==
    LET bh == get_business_hours(p.store_id, p.hours_tbl)
        tz_str == get_store_timezone(p.store_id, p.tz_tbl)
    IN Cardinality({i \in 0 .. n - 1 :
                      Membership(p.current_time - i * HOUR, bh, tz_str)})

\* uptime = active_ratio * total and uptime + downtime = total
RangeHolds(df, total, uptime, downtime) ==
    /\ FracEq(uptime,
              Frac(Cardinality({r \in df : r.status = "active"}) * total,
                   Cardinality(df)))
    /\ FracEq(FracAdd(uptime, downtime), Frac(total, 1))

\* C6: for each of the three ranges whose in-hours observation set is not
\* empty, uptime = active_ratio * total_business_duration and
\* uptime + downtime = total_business_duration, the total being 60 for the
\* hour and the number of open hourly instants for the day and the week.
C6_Claim ==
    probe.op = "calculate_uptime_downtime" =>
        /\ InHours(probe, WEEK) # {} => probe.out.exc = "none"
        /\ InHours(probe, HOUR) # {} =>
             RangeHolds(InHours(probe, HOUR), HourSpanMinutes,
                        probe.out.value.uptime_last_hour,
                        probe.out.value.downtime_last_hour)
        /\ InHours(probe, DAY) # {} =>
             RangeHolds(InHours(probe, DAY), BusinessDuration(probe, HoursPerDay),
                        probe.out.value.uptime_last_day,
                        probe.out.value.downtime_last_day)
        /\ InHours(probe, WEEK) # {} =>
             RangeHolds(InHours(probe, WEEK),
                        BusinessDuration(probe, DaysPerWeek * HoursPerDay),
                        probe.out.value.uptime_last_week,
                        probe.out.value.downtime_last_week)

\* C7: with no recorded schedule the total business duration is the full
\* span of the range, 24 and 168 hourly instants all passing the test and
\* 60 minutes for the hour, whatever the reference instant and the zone.
C7_Claim ==
    /\ (probe.op = "total_business_hours"
          /\ probe.bh = get_business_hours("S1", {})) =>
         probe.out = Ok(probe.n)
    /\ (probe.op = "calculate_uptime_downtime" /\ probe.hours_tbl = {}
          /\ InHours(probe, HOUR) # {}) =>
         /\ probe.out.exc = "none"
         /\ FracEq(FracAdd(probe.out.value.uptime_last_hour,
                           probe.out.value.downtime_last_hour),
                   Frac(HourSpanMinutes, 1))

---------------------------------------------------------------------------
(* The report job engine: claims C1 to C4 and C9 *)

Terminal == {"Complete", "Error"}

\* C1: a report row is created with status Running, stays, and its status
\* changes only from Running, to Complete or to Error: a terminal status
\* never changes again, whatever trigger, task and query steps follow.
C1_Thm ==
    [][\A id \in ReportIds :
         /\ (~report_status[id].exists /\ report_status'[id].exists) =>
               report_status'[id].status = "Running"
         /\ report_status[id].exists => report_status'[id].exists
         /\ (report_status[id].exists
               /\ report_status'[id].status # report_status[id].status) =>
               /\ report_status[id].status = "Running"
               /\ report_status'[id].status \in Terminal]_vars

\* one job has ended Complete and another Error
C1_Witness ==
    /\ report_status[1].status = "Complete"
    /\ report_status[2].status = "Error"
    /\ task[1].pc = "done"
    /\ task[2].pc = "done"

Complete_artifact(id) ==
    /\ files[output_file(id)].exists
    /\ files[output_file(id)].header
    /\ LET rows == files[output_file(id)].rows
           listed == Listed({r.store_id : r \in store_status})
       IN /\ Len(rows) = Len(listed)
          /\ \A k \in 1 .. Len(rows) : rows[k].store_id = listed[k]
          /\ rows = task[id].results

\* C3: while a job's status is Complete its artifact is wholly written, the
\* header and exactly one row per enumerated store in enumeration order,
\* and a query that sees Complete is answered with that artifact.
C3_Thm ==
    \A id \in ReportIds :
        report_status[id].status = "Complete" =>
            /\ Complete_artifact(id)
            /\ (response.report_id = id /\ response.seen = "Complete") =>
                 /\ response.body = "file"
                 /\ response.content = files[output_file(id)]

\* a Complete job with a row for each of the two stores has been served
C3_Witness ==
    /\ report_status[1].status = "Complete"
    /\ Len(files[output_file(1)].rows) = 2
    /\ response.report_id = 1
    /\ response.body = "file"

\* what a finished task leaves: Error when an exception was raised,
\* Complete with a completion instant otherwise
C4_Final ==
    \A id \in ReportIds :
        /\ task[id].exc # "none" => report_status[id].status # "Complete"
        /\ task[id].pc = "done" =>
             IF task[id].exc # "none"
             THEN report_status[id].status = "Error"
             ELSE /\ report_status[id].status = "Complete"
                  /\ report_status[id].completed_at # <<>>

\* C4: every triggered job leaves Running; with an exception while a store
\* is processed or the artifact is written it ends Error, never Complete,
\* and otherwise Complete with a completion instant.
C4_Thm ==
    /\ \A id \in ReportIds :
         (task[id].pc # "idle") ~> (report_status[id].status \in Terminal)
    /\ []C4_Final

\* one job ended Error on an OSError raised after its first row was written,
\* and another ended Complete with its completion instant
C4_Witness ==
    /\ task[1].pc = "done" /\ task[1].exc = "OSError"
    /\ task[1].written = 1
    /\ report_status[1].status = "Error"
    /\ task[2].pc = "done" /\ task[2].exc = "none"
    /\ report_status[2].status = "Complete"
    /\ report_status[2].completed_at # <<>>

\* the outcomes of the stores of the tables, computed for one job alone
Alone_outcomes ==
    LET listed == Listed({r.store_id : r \in store_status})
        now == get_max_timestamp(store_status, 0)
    IN [k \in 1 .. Len(listed) |->
          calculate_uptime_downtime(listed[k], now, store_status,
                                    business_hours, timezone)]

\* the final status and artifact of a job are those of a run alone
Alone_result(id) ==
    LET outs == Alone_outcomes
    IN IF task[id].exc = "OSError"
       THEN report_status[id].status = "Error"
       ELSE IF \E k \in DOMAIN outs : outs[k].exc # "none"
       THEN /\ report_status[id].status = "Error"
            /\ files[output_file(id)] = NoFile
       ELSE /\ report_status[id].status = "Complete"
            /\ files[output_file(id)] =
                 [exists |-> TRUE, header |-> TRUE,
                  rows |-> [k \in DOMAIN outs |-> outs[k].value]]

\* C9: the status row and the file of a job change only in that job's own
\* steps, and a finished job's status and artifact are those it would have
\* had running alone on the same tables.
C9_Thm ==
    /\ [][\A id \in ReportIds :
            (report_status'[id] # report_status[id] \/ files'[id] # files[id])
                => task'[id] # task[id]]_vars
    /\ [](\A id \in ReportIds : task[id].pc = "done" => Alone_result(id))

\* the second job has finished Complete while the first, triggered before
\* it, is still writing its rows
C9_Witness ==
    /\ task[2].pc = "done"
    /\ report_status[2].status = "Complete"
    /\ task[1].pc = "rows"
    /\ task[1].written = 1
    /\ Len(files[output_file(2)].rows) = 2

---------------------------------------------------------------------------
(* The reference instant: claim C10 *)

\* C10: the reference instant of a job is the largest stored timestamp at
\* its start, the wall clock if there was none, and every store of the job
\* is computed with that instant, also when observations are loaded while
\* the job runs.
C10_Thm ==
    task[1].pc \notin {"idle", "start"} =>
        /\ task[1].used_now \subseteq {task[1].current_time}
        /\ IF task[1].db_at_start.store_status = {}
           THEN task[1].current_time \in UtcNowValues
           ELSE /\ \E r \in task[1].db_at_start.store_status :
                     r.timestamp_utc = task[1].current_time
                /\ \A r \in task[1].db_at_start.store_status :
                     r.timestamp_utc <= task[1].current_time

\* the job started on an empty table, the observations were loaded, and a
\* store has been computed since
C10_Witness ==
    /\ task[1].db_at_start.store_status = {}
    /\ store_status # {}
    /\ task[1].used_now # {}
    /\ task[1].current_time \in UtcNowValues

=============================================================================
